---- MODULE Spec2Model ----
(***************************************************************************)
(* Model of dynatrace_daily_agent.py: one invocation of main().            *)
(* Text is a sequence of tokens: a line or fragment is one token, and the  *)
(* characters the code inspects one by one (quotes, the characters of an   *)
(* exception message, the characters of a configuration value) are one     *)
(* token each.                                                             *)
(***************************************************************************)
EXTENDS Integers, Sequences, FiniteSets, TLC

VARIABLES
    CONFIG,     \* the module-level CONFIG mapping
    pc,         \* position of main() / generate_daily_report() / analyze_all()
    results,    \* analyze_all's `results` mapping (check name -> mapping)
    issues,     \* ArchitectureAnalyzer.issues
    report,     \* the `report` string of generate_daily_report / main
    branch,     \* which branch of generate_daily_report assigned `report`
    raised,     \* str(e) of the exception caught at line 462, or NoException
    message,    \* the `message` local of send_imessage after line 79
    success,    \* the `success` local of main
    trace,      \* the blocking operations executed so far, in order
    stdout,     \* what print() wrote
    fs          \* the reports directory: does it exist, and its files

vars == <<CONFIG, pc, results, issues, report, branch, raised, message, success, trace, stdout, fs>>

----------------------------------------------------------------------------
(* Bounds of the inputs.                                                    *)

MaxProblems == 2
MaxHosts == 4
MaxVersions == 4
MaxGateways == 2
MaxMonitors == 1
MaxCritical == 11
MaxWarnings == 4
MaxOffline == 7

----------------------------------------------------------------------------
(* Generic helpers for Python's built-ins.                                  *)

\* s[:n]
Take(s, n) == SubSeq(s, 1, IF Len(s) < n THEN Len(s) ELSE n)

\* `sub in s` for strings
Contains(sub, s) ==
    \E i \in 0..(Len(s) - Len(sub)) : SubSeq(s, i + 1, i + Len(sub)) = sub

\* d.get(k, default)
DictGet(d, k, default) == IF k \in DOMAIN d THEN d[k] ELSE default

\* max(a, b) and min(a, b)
max(a, b) == IF a >= b THEN a ELSE b
min(a, b) == IF a <= b THEN a ELSE b

\* sum(1 for x in s if P(x)) / len([x for x in s if P(x)])
CountIf(flags) == Cardinality({i \in 1..Len(flags) : flags[i]})

RECURSIVE Flatten(_)
\* "".join(parts) for a sequence of token sequences
Flatten(ss) ==
    IF ss = <<>> THEN <<>>
    ELSE IF Len(ss) = 1 THEN ss[1]
    ELSE LET half == Len(ss) \div 2
         IN  Flatten(SubSeq(ss, 1, half)) \o Flatten(SubSeq(ss, half + 1, Len(ss)))

Whitespace == {"\n", " "}

RECURSIVE LStrip(_)
LStrip(s) == IF s # <<>> /\ Head(s) \in Whitespace THEN LStrip(Tail(s)) ELSE s

RECURSIVE RStrip(_)
RStrip(s) ==
    IF s # <<>> /\ s[Len(s)] \in Whitespace THEN RStrip(SubSeq(s, 1, Len(s) - 1)) ELSE s

\* str.strip()
Strip(s) == LStrip(RStrip(s))

\* message.replace('"', '\\"').replace("'", "\\'")
Escape(s) ==
    Flatten([i \in 1..Len(s) |->
        IF s[i] = "\"" THEN <<"\\", "\"">>
        ELSE IF s[i] = "'" THEN <<"\\", "'">>
        ELSE <<s[i]>>])

----------------------------------------------------------------------------
(* Configuration.                                                           *)

\* "YOUR_" and "1234567890", the placeholder sentinels
CredentialSentinel == <<"Y", "O", "U", "R", "_">>
RecipientSentinel == <<"1", "2", "3", "4", "5", "6", "7", "8", "9", "0">>

\* the defaults of CONFIG, and values a user sets in the environment / config.env
DefaultTenantUrl == <<"h", "t", "t", "p", "s", ":", "/", "/">> \o CredentialSentinel
                        \o <<"T", "E", "N", "A", "N", "T", ".", "l", "i", "v", "e">>
DefaultApiToken == CredentialSentinel \o <<"A", "P", "I", "_", "T", "O", "K", "E", "N">>
DefaultRecipient == <<"+">> \o RecipientSentinel

TenantUrls == {DefaultTenantUrl, <<"h", "t", "t", "p", "s", ":", "/", "/", "a", "b", "c", ".", "l", "i", "v", "e">>}
ApiTokens == {DefaultApiToken, <<"d", "t", "0", "c", "0", "1", ".", "X", "Y", "O", "U">>}
Recipients == {DefaultRecipient, <<"+", "1", "5", "5", "5", "0", "1", "0", "0">>}

\* variant: both credentials must hold the placeholder (`and` for `or`)
IsUnconfigured_Both ==
    /\ Contains(CredentialSentinel, CONFIG["DYNATRACE_TENANT_URL"])
    /\ Contains(CredentialSentinel, CONFIG["DYNATRACE_API_TOKEN"])

\* line 398
IsUnconfigured ==
    \/ Contains(CredentialSentinel, CONFIG["DYNATRACE_TENANT_URL"])
    \/ Contains(CredentialSentinel, CONFIG["DYNATRACE_API_TOKEN"])

\* variant: the recipient is compared with the sentinel (`==` for `in`)
RecipientIsPlaceholder_Equals == CONFIG["IMESSAGE_RECIPIENT"] = RecipientSentinel

\* line 508
RecipientIsPlaceholder == Contains(RecipientSentinel, CONFIG["IMESSAGE_RECIPIENT"])

----------------------------------------------------------------------------
(* Values before assignment.                                                *)

NotRun == [notrun |-> TRUE]
NoResults == [problems |-> NotRun, oneagent |-> NotRun, activegate |-> NotRun,
              synthetic |-> NotRun, summary |-> NotRun]
NoException == <<"<none>">>
NoText == <<>>

----------------------------------------------------------------------------
(* DynatraceClient: responses of the HTTP API and the _get helper.          *)

EmptyMapping == [k \in {} |-> 0]

\* a JSON body that is not an object (e.g. an array): calling .get on it raises
JsonArray == [json_array |-> TRUE]

\* requests.exceptions.RequestException raised by requests.get (transport
\* failure, timeout) or by raise_for_status (non-success HTTP status)
RequestExceptions == {"ConnectionError", "Timeout", "HTTPError"}

Severities == {"ERROR", "WARNING", "INFO"}
Problem(sev) == [title |-> "problem " \o sev, severityLevel |-> sev]

\* all sequences over S of length at most n
SeqsUpTo(S, n) == UNION {[1..k -> S] : k \in 0..n}

\* a fleet of n hosts running d versions in rotation; every second host
\* reports no monitoringMode
Host(i, d) ==
    IF i % 2 = 1
    THEN [properties |-> [installerVersion |-> "1." \o ToString((i - 1) % d),
                          monitoringMode |-> "FULL_STACK"]]
    ELSE [properties |-> [installerVersion |-> "1." \o ToString((i - 1) % d)]]
HostList(n, d) == [i \in 1..n |-> Host(i, d)]

Failures == {[kind |-> k, body |-> EmptyMapping] : k \in RequestExceptions}
Ok(body) == [kind |-> "ok", body |-> body]

ProblemResponses ==
    {Ok([problems |-> [i \in DOMAIN s |-> Problem(s[i])]]) : s \in SeqsUpTo(Severities, MaxProblems)}
        \cup {Ok(EmptyMapping), Ok(JsonArray)} \cup Failures
HostResponses ==
    {Ok([entities |-> HostList(n, d)]) : n \in 0..MaxHosts, d \in 1..MaxVersions}
        \cup {Ok(EmptyMapping), Ok(JsonArray)} \cup Failures
GatewayResponses ==
    {Ok([activeGates |-> [i \in DOMAIN s |-> IF s[i] = "absent" THEN [id |-> "ag"]
                                                        ELSE [id |-> "ag", connected |-> s[i] = "up"]]]) :
        s \in SeqsUpTo({"up", "down", "absent"}, MaxGateways)}
        \cup {Ok(EmptyMapping), Ok(JsonArray)} \cup Failures
MonitorResponses ==
    {Ok([monitors |-> [i \in DOMAIN s |-> [enabled |-> s[i]]]]) : s \in SeqsUpTo(BOOLEAN, MaxMonitors)}
        \cup {Ok(EmptyMapping), Ok(JsonArray)} \cup Failures

\* variant: the except clause catches less than RequestException, so a timeout
\* leaves _get as an exception and the check raises
_get_narrow(resp) ==
    IF resp.kind \in {"ConnectionError", "HTTPError"} THEN EmptyMapping
    ELSE IF resp.kind = "Timeout" THEN JsonArray
    ELSE resp.body

\* DynatraceClient._get: the parsed body, or {} on a RequestException
_get(resp) == IF resp.kind \in RequestExceptions THEN EmptyMapping ELSE resp.body

\* the trace entry of one GET
HttpCall(endpoint, resp) ==
    [op |-> "GET", arg |-> endpoint, res |-> IF resp.kind \in RequestExceptions THEN "failed" ELSE "ok"]

\* data.get(...) raises AttributeError when data is not a mapping
Raises(data) == "json_array" \in DOMAIN data

\* str(e) of the exceptions the analysis path raises
LongMessage(n) == [i \in 1..n |-> IF i % 7 = 0 THEN "'" ELSE IF i % 2 = 0 THEN "a" ELSE "b"]
ExceptionMessages ==
    {<<>>, <<"'", "l", "i", "s", "t", "'", " ", "n", "o", " ", "\"", "g", "e", "t", "\"">>,
     LongMessage(99), LongMessage(100), LongMessage(101), LongMessage(150)}

----------------------------------------------------------------------------
(* ArchitectureAnalyzer: each check, given the response the API gives to   *)
(* its fetch, as the result mapping, the issues it appends, the GET calls  *)
(* it makes, and whether it raises.                                        *)

Skipped == [skipped |-> TRUE]

\* a check whose toggle is off: `return {"skipped": True}` before any fetch
SkippedCheck == [result |-> Skipped, issues |-> <<>>, calls |-> <<>>, raises |-> FALSE]

_analyze_problems(resp) ==
    LET data == _get(resp)
        problems == DictGet(data, "problems", <<>>)
        critical == CountIf([i \in 1..Len(problems) |-> DictGet(problems[i], "severityLevel", "None") = "ERROR"])
        warnings == CountIf([i \in 1..Len(problems) |-> DictGet(problems[i], "severityLevel", "None") = "WARNING"])
    IN  [result |-> [total |-> Len(problems),
                     critical |-> critical,
                     warnings |-> warnings,
                     details |-> [i \in 1..Len(Take(problems, 5)) |->
                                     [title |-> DictGet(problems[i], "title", "None"),
                                      severity |-> DictGet(problems[i], "severityLevel", "None")]]],
         issues |-> IF critical > 0
                    THEN <<ToString(critical) \o " critical problems detected">>
                    ELSE <<>>,
         calls |-> <<HttpCall("problems", resp)>>,
         raises |-> Raises(data)]

\* the tally `d[key] = d.get(key, 0) + 1` over a sequence of keys
Tally(keys) ==
    [k \in {keys[i] : i \in 1..Len(keys)} |-> Cardinality({i \in 1..Len(keys) : keys[i] = k})]

RECURSIVE FirstSeen(_)
\* the keys of a dict in insertion order
FirstSeen(keys) ==
    IF keys = <<>> THEN <<>>
    ELSE LET rest == FirstSeen(SubSeq(keys, 1, Len(keys) - 1))
             last == keys[Len(keys)]
         IN  IF \E i \in 1..Len(rest) : rest[i] = last THEN rest ELSE Append(rest, last)

RECURSIVE SortedByCount(_, _)
\* sorted(versions.items(), key=lambda x: x[1], reverse=True): stable, descending
SortedByCount(order, counts) ==
    IF order = <<>> THEN <<>>
    ELSE LET best == CHOOSE i \in 1..Len(order) :
                        /\ \A j \in 1..Len(order) : counts[order[j]] <= counts[order[i]]
                        /\ \A j \in 1..(i - 1) : counts[order[j]] < counts[order[i]]
             rest == [j \in 1..(Len(order) - 1) |-> IF j < best THEN order[j] ELSE order[j + 1]]
         IN  <<[version |-> order[best], count |-> counts[order[best]]]>> \o SortedByCount(rest, counts)

_analyze_oneagent(check, resp) ==
    IF ~check THEN SkippedCheck
    ELSE
    LET data == _get(resp)
        entities == DictGet(data, "entities", <<>>)
        props(e) == DictGet(e, "properties", EmptyMapping)
        modes == [i \in 1..Len(entities) |-> DictGet(props(entities[i]), "monitoringMode", "unknown")]
        vers == [i \in 1..Len(entities) |-> DictGet(props(entities[i]), "installerVersion", "unknown")]
        versions == Tally(vers)
        nversions == Cardinality(DOMAIN versions)
    IN  [result |-> [total_hosts |-> Len(entities),
                     monitoring_modes |-> Tally(modes),
                     version_count |-> nversions,
                     top_versions |-> Take(SortedByCount(FirstSeen(vers), versions), 3)],
         issues |-> IF nversions > 3
                    THEN <<"OneAgent version fragmentation: " \o ToString(nversions) \o " different versions">>
                    ELSE <<>>,
         calls |-> <<HttpCall("entities", resp)>>,
         raises |-> Raises(data)]

\* variant: the check does not consult its toggle
_analyze_activegate_unguarded(check, resp) ==
    LET data == _get(resp)
        activegates == DictGet(data, "activeGates", <<>>)
        total == Len(activegates)
        connected == CountIf([i \in 1..Len(activegates) |-> DictGet(activegates[i], "connected", FALSE)])
        offline == total - connected
    IN  [result |-> [total |-> total, connected |-> connected, offline |-> offline],
         issues |-> IF offline > 0
                    THEN <<ToString(offline) \o " ActiveGate(s) offline">>
                    ELSE <<>>,
         calls |-> <<HttpCall("activeGates", resp)>>,
         raises |-> Raises(data)]

_analyze_activegate(check, resp) ==
    IF ~check THEN SkippedCheck
    ELSE
    LET data == _get(resp)
        activegates == DictGet(data, "activeGates", <<>>)
        total == Len(activegates)
        connected == CountIf([i \in 1..Len(activegates) |-> DictGet(activegates[i], "connected", FALSE)])
        offline == total - connected
    IN  [result |-> [total |-> total, connected |-> connected, offline |-> offline],
         issues |-> IF offline > 0
                    THEN <<ToString(offline) \o " ActiveGate(s) offline">>
                    ELSE <<>>,
         calls |-> <<HttpCall("activeGates", resp)>>,
         raises |-> Raises(data)]

_analyze_synthetic(check, resp) ==
    IF ~check THEN SkippedCheck
    ELSE
    LET data == _get(resp)
        monitors == DictGet(data, "monitors", <<>>)
        enabled == CountIf([i \in 1..Len(monitors) |-> DictGet(monitors[i], "enabled", FALSE)])
    IN  [result |-> [total |-> Len(monitors), enabled |-> enabled, disabled |-> Len(monitors) - enabled],
         issues |-> <<>>,
         calls |-> <<HttpCall("synthetic/monitors", resp)>>,
         raises |-> Raises(data)]

\* variant: the deductions without the clamp of line 340
health_score_unclamped(res) ==
    100 - DictGet(res["problems"], "critical", 0) * 10
        - DictGet(res["problems"], "warnings", 0) * 2
        - DictGet(DictGet(res, "activegate", EmptyMapping), "offline", 0) * 15

\* lines 329-340: the score after the deductions and the clamp
health_score(res) ==
    LET problems == res["problems"]
        ag == DictGet(res, "activegate", EmptyMapping)
        s0 == 100
        s1 == s0 - DictGet(problems, "critical", 0) * 10
        s2 == s1 - DictGet(problems, "warnings", 0) * 2
        s3 == s2 - DictGet(ag, "offline", 0) * 15
    IN  max(0, min(100, s3))

_generate_summary(res, iss) ==
    LET score == health_score(res)
    IN  [health_score |-> score,
         status |-> IF score >= 90 THEN "Healthy"
                    ELSE IF score >= 70 THEN "Needs Attention"
                    ELSE "Critical",
         issues_count |-> Len(iss),
         issues |-> iss]

----------------------------------------------------------------------------
(* generate_daily_report: the three report texts.                           *)

\* datetime.now().strftime("%Y-%m-%d %H:%M IST")
Timestamp == "<%Y-%m-%d %H:%M IST>"

\* lines 400-416
UnconfiguredText ==
    <<"\n", "Dynatrace Daily Report", "\n", Timestamp, "\n", "\n",
      "SETUP REQUIRED", "\n",
      "Configure your Dynatrace credentials in:", "\n",
      "~/dynatrace_agent/config.env", "\n", "\n",
      "Once configured, you", "'", "ll receive:", "\n",
      "* Problem summary", "\n",
      "* OneAgent fleet health  ", "\n",
      "* ActiveGate status", "\n",
      "* Architecture analysis", "\n",
      "* Latest DT updates", "\n", "\n",
      "Setup guide in README.md", "\n">>

\* fetch_dynatrace_updates()
fetch_dynatrace_updates == <<"Check docs.dynatrace.com/docs/whats-new for latest updates">>

\* f"{d.get(k, 'N/A')}"
GetStr(d, k, default) == IF k \in DOMAIN d THEN ToString(d[k]) ELSE default

\* lines 428-460
NormalText(res) ==
    LET summary == res["summary"]
        problems == res["problems"]
        oneagent == res["oneagent"]
        activegate == res["activegate"]
        shown == Take(summary["issues"], 5)
    IN  <<"\n", "Dynatrace Daily Report", "\n", Timestamp, "\n", "\n",
          summary["status"] \o " | Score: " \o ToString(summary["health_score"]) \o "/100", "\n", "\n",
          "PROBLEMS (24h)", "\n",
          "* Critical: " \o ToString(problems["critical"]), "\n",
          "* Warnings: " \o ToString(problems["warnings"]), "\n",
          "* Total: " \o ToString(problems["total"]), "\n", "\n",
          "ONEAGENT FLEET", "\n",
          "* Total Hosts: " \o GetStr(oneagent, "total_hosts", "N/A"), "\n",
          "* Versions in use: " \o GetStr(oneagent, "version_count", "N/A"), "\n", "\n",
          "ACTIVEGATES", "\n",
          "* Connected: " \o GetStr(activegate, "connected", "N/A") \o "/"
                          \o GetStr(activegate, "total", "N/A"), "\n", "\n">>
        \o (IF shown # <<>> THEN <<"ISSUES:", "\n">> ELSE <<>>)
        \o Flatten([i \in 1..Len(shown) |-> <<"* " \o shown[i], "\n">>])
        \o <<"\n">> \o fetch_dynatrace_updates

\* variant: str(e) without the slice
ErrorDetail_Full(m) == m

\* str(e)[:100]
ErrorDetail(m) == Take(m, 100)

\* lines 464-472
ErrorText(m) ==
    <<"\n", "Dynatrace Daily Report", "\n", Timestamp, "\n", "\n",
      "Error fetching data", "\n">>
        \o ErrorDetail(m)
        \o <<"\n", "\n", "Check logs: ~/Library/Logs/dynatrace_agent.log", "\n">>

----------------------------------------------------------------------------
(* Initial state: CONFIG as assembled from the environment and config.env,  *)
(* nothing run yet.                                                         *)

Init ==
    /\ CONFIG \in [DYNATRACE_TENANT_URL : TenantUrls,
                   DYNATRACE_API_TOKEN : ApiTokens,
                   IMESSAGE_RECIPIENT : Recipients,
                   CHECK_ONEAGENT_HEALTH : BOOLEAN,
                   CHECK_ACTIVEGATE_HEALTH : BOOLEAN,
                   CHECK_SYNTHETIC_MONITORS : BOOLEAN]
    /\ pc = "generate"
    /\ results = NoResults
    /\ issues = <<>>
    /\ report = NoText
    /\ branch = "none"
    /\ raised = NoException
    /\ message = NoText
    /\ success = "unset"
    /\ trace = <<>>
    /\ stdout = <<>>
    /\ fs \in [dir_exists : BOOLEAN, files : {{}}]

----------------------------------------------------------------------------
(* generate_daily_report and analyze_all, step by step.                     *)

\* line 398, true branch: the setup-instructions text
generate_unconfigured ==
    /\ pc = "generate"
    /\ IsUnconfigured
    /\ report' = Strip(UnconfiguredText)
    /\ branch' = "unconfigured"
    /\ pc' = "deliver"
    /\ UNCHANGED <<CONFIG, results, issues, raised, message, success, trace, stdout, fs>>

\* lines 420-425: DynatraceClient(...) and ArchitectureAnalyzer(client)
construct_analyzer ==
    /\ pc = "generate"
    /\ ~IsUnconfigured
    /\ issues' = <<>>
    /\ results' = NoResults
    /\ pc' = "problems"
    /\ UNCHANGED <<CONFIG, report, branch, raised, message, success, trace, stdout, fs>>

\* lines 462-472 and 474: the except clause of generate_daily_report
Caught(m) ==
    /\ report' = Strip(ErrorText(m))
    /\ branch' = "error"
    /\ raised' = m
    /\ pc' = "deliver"
    /\ results' = NoResults
    /\ issues' = <<>>

\* one check of analyze_all: r is what the check computed
CheckStep(name, r, nextpc) ==
    /\ trace' = trace \o r.calls
    /\ IF r.raises
       THEN \E m \in ExceptionMessages : Caught(m)
       ELSE /\ results' = [results EXCEPT ![name] = r.result]
            /\ issues' = issues \o r.issues
            /\ pc' = nextpc
            /\ UNCHANGED <<report, branch, raised>>
    /\ UNCHANGED <<CONFIG, message, success, stdout, fs>>

analyze_problems ==
    /\ pc = "problems"
    /\ \E resp \in ProblemResponses :
        CheckStep("problems", _analyze_problems(resp), "oneagent")

analyze_oneagent ==
    /\ pc = "oneagent"
    /\ \E resp \in HostResponses :
        CheckStep("oneagent", _analyze_oneagent(CONFIG["CHECK_ONEAGENT_HEALTH"], resp), "activegate")

analyze_activegate ==
    /\ pc = "activegate"
    /\ \E resp \in GatewayResponses :
        CheckStep("activegate", _analyze_activegate(CONFIG["CHECK_ACTIVEGATE_HEALTH"], resp), "synthetic")

analyze_synthetic ==
    /\ pc = "synthetic"
    /\ \E resp \in MonitorResponses :
        CheckStep("synthetic", _analyze_synthetic(CONFIG["CHECK_SYNTHETIC_MONITORS"], resp), "summary")

\* line 235
generate_summary ==
    /\ pc = "summary"
    /\ results' = [results EXCEPT !["summary"] = _generate_summary(results, issues)]
    /\ pc' = "format"
    /\ UNCHANGED <<CONFIG, issues, report, branch, raised, message, success, trace, stdout, fs>>

\* lines 428-460 and 474: the Normal text; the locals go out of scope
format_report ==
    /\ pc = "format"
    /\ report' = Strip(NormalText(results))
    /\ branch' = "normal"
    /\ pc' = "deliver"
    /\ results' = NoResults
    /\ issues' = <<>>
    /\ UNCHANGED <<CONFIG, raised, message, success, trace, stdout, fs>>

----------------------------------------------------------------------------
(* main: the delivery decision, send_imessage, send_imessage_fallback and   *)
(* the backup file.                                                         *)

\* what subprocess.run(['osascript', ...], timeout=30) does
OsascriptOutcomes == {"exit0", "nonzero", "TimeoutExpired", "OSError"}

Osascript(stage, outcome) == [op |-> "osascript", arg |-> stage, res |-> outcome]

\* variant: the returncode test inverted
CallsFallback_Inverted(outcome) == outcome = "exit0"

\* variant: the generic except clause also calls the fallback
CallsFallback_OnError(outcome) == outcome \in {"nonzero", "OSError"}

\* lines 97-109: after the primary osascript call, is the fallback called?
CallsFallback(outcome) == outcome = "nonzero"

\* lines 97-99, 104-109: the value send_imessage returns without the fallback
PrimaryReturn(outcome) == outcome = "exit0"

\* lines 144-147
FallbackReturn(outcome) == outcome = "exit0"

\* lines 508-513: placeholder recipient, print only
main_print_only ==
    /\ pc = "deliver"
    /\ RecipientIsPlaceholder
    /\ stdout' = stdout \o <<"==================================================">> \o report
                        \o <<"==================================================",
                             "Configure IMESSAGE_RECIPIENT in config.env to receive iMessage notifications">>
    /\ trace' = Append(trace, [op |-> "log", arg |-> "Dynatrace Daily Agent Completed", res |-> "ok"])
    /\ pc' = "done"
    /\ UNCHANGED <<CONFIG, results, issues, report, branch, raised, message, success, fs>>

\* lines 515, 79-109: the primary osascript call
send_imessage ==
    /\ pc = "deliver"
    /\ ~RecipientIsPlaceholder
    /\ message' = Escape(report)
    /\ \E outcome \in OsascriptOutcomes :
        /\ trace' = Append(trace, Osascript("primary", outcome))
        /\ IF CallsFallback(outcome)
           THEN pc' = "fallback" /\ UNCHANGED success
           ELSE pc' = "sent" /\ success' = PrimaryReturn(outcome)
    /\ UNCHANGED <<CONFIG, results, issues, report, branch, raised, stdout, fs>>

\* variant: the fallback is tried again until it exits 0
send_imessage_fallback_retry ==
    /\ pc = "fallback"
    /\ \E outcome \in OsascriptOutcomes :
        /\ trace' = Append(trace, Osascript("fallback", outcome))
        /\ IF outcome = "exit0"
           THEN pc' = "sent" /\ success' = TRUE
           ELSE pc' = "fallback" /\ UNCHANGED success
    /\ UNCHANGED <<CONFIG, results, issues, report, branch, raised, message, stdout, fs>>

\* lines 103, 116-147: the fallback osascript call, given the escaped message
send_imessage_fallback ==
    /\ pc = "fallback"
    /\ \E outcome \in OsascriptOutcomes :
        /\ trace' = Append(trace, Osascript("fallback", outcome))
        /\ success' = FallbackReturn(outcome)
    /\ pc' = "sent"
    /\ UNCHANGED <<CONFIG, results, issues, report, branch, raised, message, stdout, fs>>

\* lines 516-517, 527
main_sent ==
    /\ pc = "sent"
    /\ success = TRUE
    /\ trace' = Append(trace, [op |-> "log", arg |-> "Dynatrace Daily Agent Completed", res |-> "ok"])
    /\ pc' = "done"
    /\ UNCHANGED <<CONFIG, results, issues, report, branch, raised, message, success, stdout, fs>>

\* datetime.now().strftime('%Y%m%d_%H%M%S') at line 521
BackupStamps == {"20261103_110000", "20261104_110001"}

\* variant: the escaped message is written instead of the report
BackupContent_Escaped == message

\* line 524: what is written to the backup file
BackupContent == report

\* lines 518-525, 527: the backup file
main_backup ==
    /\ pc = "sent"
    /\ success = FALSE
    /\ \E stamp \in BackupStamps :
        fs' = [dir_exists |-> TRUE,
               files |-> fs.files \cup {[name |-> "~/dynatrace_agent/reports/" \o stamp \o ".txt",
                                         content |-> BackupContent]}]
    /\ trace' = trace \o <<[op |-> "makedirs", arg |-> "reports",
                             res |-> IF fs.dir_exists THEN "exists" ELSE "created"],
                           [op |-> "write", arg |-> "backup", res |-> "ok"],
                           [op |-> "log", arg |-> "Dynatrace Daily Agent Completed", res |-> "ok"]>>
    /\ pc' = "done"
    /\ UNCHANGED <<CONFIG, results, issues, report, branch, raised, message, success, stdout>>

Next ==
    \/ generate_unconfigured
    \/ construct_analyzer
    \/ analyze_problems
    \/ analyze_oneagent
    \/ analyze_activegate
    \/ analyze_synthetic
    \/ generate_summary
    \/ format_report
    \/ main_print_only
    \/ send_imessage
    \/ send_imessage_fallback
    \/ main_sent
    \/ main_backup

Spec == Init /\ [][Next]_vars

----------------------------------------------------------------------------
(* The summary on large inputs: analyze_all has run its four checks on a    *)
(* tenant with c critical problems, w warnings and o offline gateways.      *)

CriticalCounts == 0..MaxCritical \cup {50}

ProblemList(c, w) == [i \in 1..(c + w) |-> Problem(IF i <= c THEN "ERROR" ELSE "WARNING")]
GatewayList(o) == [i \in 1..(o + 1) |-> [id |-> "ag", connected |-> i > o]]

InitScore ==
    /\ CONFIG = [DYNATRACE_TENANT_URL |-> CHOOSE u \in TenantUrls : u # DefaultTenantUrl,
                 DYNATRACE_API_TOKEN |-> CHOOSE t \in ApiTokens : t # DefaultApiToken,
                 IMESSAGE_RECIPIENT |-> DefaultRecipient,
                 CHECK_ONEAGENT_HEALTH |-> TRUE,
                 CHECK_ACTIVEGATE_HEALTH |-> TRUE,
                 CHECK_SYNTHETIC_MONITORS |-> TRUE]
    /\ pc = "summary"
    /\ \E c \in CriticalCounts, w \in 0..MaxWarnings, o \in 0..MaxOffline :
        LET p == _analyze_problems(Ok([problems |-> ProblemList(c, w)]))
            h == _analyze_oneagent(TRUE, Ok(EmptyMapping))
            g == _analyze_activegate(TRUE, Ok([activeGates |-> GatewayList(o)]))
            m == _analyze_synthetic(TRUE, Ok(EmptyMapping))
        IN  /\ results = [NoResults EXCEPT !["problems"] = p.result, !["oneagent"] = h.result,
                                           !["activegate"] = g.result, !["synthetic"] = m.result]
            /\ issues = p.issues \o h.issues \o g.issues \o m.issues
            /\ trace = p.calls \o h.calls \o g.calls \o m.calls
    /\ report = NoText
    /\ branch = "none"
    /\ raised = NoException
    /\ message = NoText
    /\ success = "unset"
    /\ stdout = <<>>
    /\ fs = [dir_exists |-> TRUE, files |-> {}]

NextScore ==
    \/ generate_summary
    \/ format_report

SpecScore == InitScore /\ [][NextScore]_vars

----------------------------------------------------------------------------
(* Vocabulary of the properties.                                            *)

GetCalls == {i \in DOMAIN trace : trace[i].op = "GET"}
GetCallsTo(endpoint) == {i \in GetCalls : trace[i].arg = endpoint}
FailedFetch(endpoint) == \E i \in GetCallsTo(endpoint) : trace[i].res = "failed"
OsaCalls(stage) == {i \in DOMAIN trace : trace[i].op = "osascript" /\ trace[i].arg = stage}
PrimaryOutcome(o) == \E i \in OsaCalls("primary") : trace[i].res = o
FallbackOutcome(o) == \E i \in OsaCalls("fallback") : trace[i].res = o
FallbackInvoked == OsaCalls("fallback") # {}
FileCalls == {i \in DOMAIN trace : trace[i].op \in {"makedirs", "write"}}
Completed == \E i \in DOMAIN trace : trace[i].op = "log" /\ trace[i].arg = "Dynatrace Daily Agent Completed"

AnalysisPcs == {"problems", "oneagent", "activegate", "synthetic", "summary", "format"}
DeliveryPcs == {"deliver", "fallback", "sent", "done"}

CredentialsArePlaceholder ==
    \/ Contains(<<"Y", "O", "U", "R", "_">>, CONFIG["DYNATRACE_TENANT_URL"])
    \/ Contains(<<"Y", "O", "U", "R", "_">>, CONFIG["DYNATRACE_API_TOKEN"])
RecipientHasSentinel ==
    Contains(<<"1", "2", "3", "4", "5", "6", "7", "8", "9", "0">>, CONFIG["IMESSAGE_RECIPIENT"])

HasLine(line) == \E i \in DOMAIN report : report[i] = line
Printed == report # <<>> /\ Contains(report, stdout)

Clamp(x) == IF x < 0 THEN 0 ELSE IF x > 100 THEN 100 ELSE x

\* the deductions the claim names, read off the results of the checks that ran
Deductions(res) ==
    10 * res["problems"]["critical"] + 2 * res["problems"]["warnings"]
        + (IF "offline" \in DOMAIN res["activegate"] THEN 15 * res["activegate"]["offline"] ELSE 0)

\* the issues the checks that ran give rise to, in the order of the checks
ExpectedIssues(res) ==
    (IF res["problems"]["critical"] > 0
     THEN <<ToString(res["problems"]["critical"]) \o " critical problems detected">> ELSE <<>>)
    \o (IF "version_count" \in DOMAIN res["oneagent"] /\ res["oneagent"]["version_count"] > 3
        THEN <<"OneAgent version fragmentation: " \o ToString(res["oneagent"]["version_count"])
                    \o " different versions">> ELSE <<>>)
    \o (IF "offline" \in DOMAIN res["activegate"] /\ res["activegate"]["offline"] > 0
        THEN <<ToString(res["activegate"]["offline"]) \o " ActiveGate(s) offline">> ELSE <<>>)

Toggle == [oneagent |-> "CHECK_ONEAGENT_HEALTH", activegate |-> "CHECK_ACTIVEGATE_HEALTH",
           synthetic |-> "CHECK_SYNTHETIC_MONITORS"]
Endpoint == [problems |-> "problems", oneagent |-> "entities", activegate |-> "activeGates",
             synthetic |-> "synthetic/monitors"]
ToggledChecks == {"oneagent", "activegate", "synthetic"}
AllChecks == {"problems"} \cup ToggledChecks

----------------------------------------------------------------------------
(* C1: when the primary osascript call exits with status 0, the fallback    *)
(* stage is never invoked in that run and send_imessage returns True.       *)
C1_PrimarySuccessNoFallback ==
    PrimaryOutcome("exit0") => /\ ~FallbackInvoked
                               /\ pc \in {"sent", "done"}
                               /\ success = TRUE

C1_Witness == pc = "done" /\ PrimaryOutcome("exit0") /\ Completed

(* C2 as stated: the fallback is invoked when the primary returns non-zero  *)
(* or raises a handled non-timeout error, and never when it times out.      *)
C2_Original ==
    pc \in {"sent", "done"} =>
        /\ (PrimaryOutcome("nonzero") \/ PrimaryOutcome("OSError")) => FallbackInvoked
        /\ PrimaryOutcome("TimeoutExpired") => (~FallbackInvoked /\ success = FALSE)

(* C2 as amended: the fallback is invoked exactly when the primary returns  *)
(* a non-zero exit status; a primary timeout and any other handled error of *)
(* the primary are both terminal: delivery fails with no fallback attempt.  *)
C2_FallbackOnlyOnNonzeroExit ==
    /\ pc = "fallback" => PrimaryOutcome("nonzero")
    /\ pc \in {"sent", "done"} =>
        /\ FallbackInvoked <=> PrimaryOutcome("nonzero")
        /\ (PrimaryOutcome("TimeoutExpired") \/ PrimaryOutcome("OSError")) =>
                (~FallbackInvoked /\ success = FALSE)

C2_Witness == pc = "sent" /\ PrimaryOutcome("OSError") /\ ~FallbackInvoked /\ success = FALSE

(* C3: with a configured recipient, when the primary and the fallback both  *)
(* fail, main creates the reports directory if absent and writes one        *)
(* timestamp-named file whose content is the report text itself, not the    *)
(* escaped message the delivery stages were given.                          *)
C3_BackupHoldsExactReport ==
    (/\ pc = "done"
     /\ ~RecipientHasSentinel
     /\ PrimaryOutcome("nonzero")
     /\ FallbackInvoked /\ ~FallbackOutcome("exit0")) =>
        /\ fs.dir_exists
        /\ Cardinality(fs.files) = 1
        /\ \A f \in fs.files :
            /\ f.content = report
            /\ f.name \in {"~/dynatrace_agent/reports/" \o stamp \o ".txt" : stamp \in BackupStamps}
            /\ (\E i \in DOMAIN report : report[i] \in {"'", "\""}) => f.content # message
        /\ \E i, j \in FileCalls : i < j /\ trace[i].op = "makedirs" /\ trace[j].op = "write"

C3_Witness ==
    /\ pc = "done"
    /\ ~RecipientHasSentinel
    /\ PrimaryOutcome("nonzero") /\ FallbackOutcome("nonzero")
    /\ \E i \in FileCalls : trace[i].op = "makedirs" /\ trace[i].res = "created"
    /\ message # report
    /\ \E f \in fs.files : f.content = report

(* C4 as stated: with the placeholder recipient no delivery stage runs, the *)
(* report is written to a backup file and is printed to standard output.    *)
C4_Original ==
    (pc = "done" /\ RecipientHasSentinel) =>
        /\ OsaCalls("primary") = {} /\ OsaCalls("fallback") = {}
        /\ \E f \in fs.files : f.content = report
        /\ Printed

(* C4 as amended: with the placeholder recipient no delivery stage runs and *)
(* the report is printed to standard output; no backup file is written.     *)
C4_PlaceholderPrintsOnly ==
    RecipientHasSentinel =>
        /\ OsaCalls("primary") = {} /\ OsaCalls("fallback") = {}
        /\ pc \notin {"fallback", "sent"}
        /\ fs.files = {} /\ FileCalls = {}
        /\ pc = "done" => Printed

C4_Witness == pc = "done" /\ RecipientHasSentinel /\ Printed /\ fs.files = {}

(* C5: with a placeholder tenant URL or API token no analyzer is built and  *)
(* no GET is issued, and the report is the setup-instructions text; every   *)
(* generated report comes from exactly one of the three branches.           *)
C5_UnconfiguredMakesNoCalls ==
    /\ CredentialsArePlaceholder =>
        /\ GetCalls = {}
        /\ pc \notin AnalysisPcs
        /\ results = NoResults
        /\ pc \in DeliveryPcs => report = Strip(UnconfiguredText)
    /\ pc \in DeliveryPcs =>
        /\ Cardinality({l \in {"SETUP REQUIRED", "PROBLEMS (24h)", "Error fetching data"} : HasLine(l)}) = 1
        /\ HasLine("SETUP REQUIRED") <=> CredentialsArePlaceholder
        /\ HasLine("Error fetching data") <=> raised # NoException

C5_Witness ==
    /\ pc = "done"
    /\ ~Contains(CredentialSentinel, CONFIG["DYNATRACE_TENANT_URL"])
    /\ Contains(CredentialSentinel, CONFIG["DYNATRACE_API_TOKEN"])
    /\ HasLine("SETUP REQUIRED")
    /\ GetCalls = {}

(* C6: an exception raised on the analysis path is caught: the report is    *)
(* the error text with at most the first 100 characters of the message, and *)
(* the run goes on to the delivery decision and the completion banner.      *)
C6_ExceptionGivesErrorReport ==
    raised # NoException =>
        /\ pc \in DeliveryPcs
        /\ pc = "done" => Completed
        /\ Len(report) >= 10
        /\ report[6] = "Error fetching data"
        /\ LET detail == SubSeq(report, 8, Len(report) - 3)
           IN  /\ Len(detail) <= 100
               /\ Len(detail) <= Len(raised)
               /\ detail = SubSeq(raised, 1, Len(detail))
               /\ Len(raised) <= 100 => detail = raised
               /\ Len(raised) > 100 => Len(detail) = 100

C6_Witness == pc = "done" /\ raised # NoException /\ Len(raised) > 100 /\ Completed

(* C7: the health score is 100 - 10c - 2w - 15o clamped to [0,100]: always  *)
(* within [0,100] and never higher when any of the counts is higher.        *)
C7_HealthScoreClampedMonotone ==
    pc = "format" =>
        LET c == results["problems"]["critical"]
            w == results["problems"]["warnings"]
            o == results["activegate"]["offline"]
            score == results["summary"]["health_score"]
        IN  /\ score = Clamp(100 - 10 * c - 2 * w - 15 * o)
            /\ score \in 0..100
            /\ \A c2 \in CriticalCounts, w2 \in 0..MaxWarnings, o2 \in 0..MaxOffline :
                (c2 >= c /\ w2 >= w /\ o2 >= o) =>
                    health_score([problems |-> [critical |-> c2, warnings |-> w2],
                                  activegate |-> [offline |-> o2]]) <= score

C7_Witness ==
    /\ pc = "format"
    /\ results["problems"]["critical"] = 50
    /\ results["activegate"]["offline"] > 0
    /\ results["summary"]["health_score"] = 0

(* C8 as stated: each of the four checks has a toggle, so with every toggle *)
(* of CONFIG off all four checks report skipped.                            *)
C8_Original ==
    (pc = "format" /\ \A k \in ToggledChecks : ~CONFIG[Toggle[k]]) =>
        \A k \in AllChecks : results[k] = [skipped |-> TRUE]

(* C8 as amended: the fleet, gateway and synthetic checks are each          *)
(* skippable by a toggle (the problems check has none and always runs); a   *)
(* skipped check reports {skipped: true}, fetches nothing, appends no issue *)
(* and deducts nothing, and the issues and deductions are exactly those of  *)
(* the checks that ran.                                                     *)
C8_ThreeChecksSkippable ==
    pc = "format" =>
        /\ results["problems"] # [skipped |-> TRUE]
        /\ GetCallsTo("problems") # {}
        /\ \A k \in ToggledChecks :
            /\ ~CONFIG[Toggle[k]] => (results[k] = [skipped |-> TRUE] /\ GetCallsTo(Endpoint[k]) = {})
            /\ CONFIG[Toggle[k]] => ("total" \in DOMAIN results[k] \/ "total_hosts" \in DOMAIN results[k])
        /\ issues = ExpectedIssues(results)
        /\ results["summary"]["issues"] = issues
        /\ results["summary"]["health_score"] = Clamp(100 - Deductions(results))

C8_Witness ==
    /\ pc = "format"
    /\ ~CONFIG["CHECK_ACTIVEGATE_HEALTH"] /\ CONFIG["CHECK_ONEAGENT_HEALTH"]
    /\ results["activegate"] = [skipped |-> TRUE]
    /\ results["problems"]["critical"] > 0
    /\ results["oneagent"]["version_count"] > 3
    /\ Len(issues) = 2

(* C9: a fetch that fails yields an empty mapping: the check reports what   *)
(* it reports for an empty collection (zero counts, no issue, no            *)
(* deduction), the other checks still run, and no failed fetch leads to the *)
(* Error branch: the run produces the Normal report.                        *)
C9_FailedFetchIsEmptyResult ==
    /\ pc = "format" =>
        /\ FailedFetch("problems") =>
                results["problems"] = [total |-> 0, critical |-> 0, warnings |-> 0, details |-> <<>>]
        /\ FailedFetch("entities") =>
                results["oneagent"] = [total_hosts |-> 0, monitoring_modes |-> <<>>,
                                       version_count |-> 0, top_versions |-> <<>>]
        /\ FailedFetch("activeGates") =>
                results["activegate"] = [total |-> 0, connected |-> 0, offline |-> 0]
        /\ FailedFetch("synthetic/monitors") =>
                results["synthetic"] = [total |-> 0, enabled |-> 0, disabled |-> 0]
        /\ issues = ExpectedIssues(results)
        /\ results["summary"]["health_score"] = Clamp(100 - Deductions(results))
        /\ Cardinality(GetCalls) = 1 + Cardinality({k \in ToggledChecks : CONFIG[Toggle[k]]})
    /\ raised # NoException => (GetCalls # {} /\ trace[CHOOSE i \in GetCalls : \A j \in GetCalls : j <= i].res = "ok")
    /\ (pc \in DeliveryPcs /\ ~CredentialsArePlaceholder /\ \A i \in GetCalls : trace[i].res = "failed") =>
            (HasLine("PROBLEMS (24h)") /\ HasLine("* Total: 0") /\ branch = "normal")

C9_Witness ==
    /\ pc = "format"
    /\ Cardinality(GetCalls) = 4
    /\ \A i \in GetCalls : trace[i].res = "failed"
    /\ results["summary"]["health_score"] = 100

(* C10: a run is a sequential chain: at most six GET calls, then at most    *)
(* two osascript invocations (the primary before the fallback), then the    *)
(* backup-file I/O; no GET after a delivery stage has started, and no GET   *)
(* endpoint and no delivery stage is used twice.                            *)
C10_SequentialChainNoRetry ==
    /\ Cardinality(GetCalls) <= 6
    /\ \A k \in AllChecks : Cardinality(GetCallsTo(Endpoint[k])) <= 1
    /\ \A i \in GetCalls : trace[i].arg \in {Endpoint[k] : k \in AllChecks}
    /\ Cardinality(OsaCalls("primary")) <= 1
    /\ Cardinality(OsaCalls("fallback")) <= 1
    /\ \A j \in OsaCalls("fallback") : \E i \in OsaCalls("primary") : i < j
    /\ \A i \in GetCalls : \A j \in OsaCalls("primary") \cup OsaCalls("fallback") \cup FileCalls : i < j
    /\ \A i \in OsaCalls("primary") \cup OsaCalls("fallback") : \A j \in FileCalls : i < j
    /\ Cardinality({i \in FileCalls : trace[i].op = "write"}) <= 1
    /\ pc \in AnalysisPcs => (OsaCalls("primary") = {} /\ FileCalls = {})

C10_Witness ==
    /\ pc = "done"
    /\ Cardinality(GetCalls) = 4
    /\ OsaCalls("primary") # {} /\ OsaCalls("fallback") # {}
    /\ \E i \in FileCalls : trace[i].op = "write"

====
